---- MODULE Spec2Model ----
(***************************************************************************)
(* Eigenvalues of a density matrix through the Faddeev-LeVerrier           *)
(* recursion (tutorial.ipynb): get_traces, c_n_m, compute_coefs and the    *)
(* cells that drive them.                                                  *)
(*                                                                         *)
(* Numbers.  The notebook computes in floating point; the model computes   *)
(* in exact rational arithmetic.  A rational is a pair <<p, q>> with       *)
(* q > 0 and gcd(|p|, q) = 1.  Matrix entries and trace values are         *)
(* integers.                                                               *)
(***************************************************************************)
EXTENDS Integers, Sequences, FiniteSets, TLC

VARIABLES
    cell,           \* notebook cell being executed, or "direct" for a caller outside the notebook
    pc,             \* position inside the function being executed
    rho,            \* the matrix (cell 54)
    traces,         \* notebook global `traces` (cell 56)
    coefs,          \* value returned by the last compute_coefs
    poly,           \* coefficient sequence handed to Polynomial (cell 59)
    gt_i,           \* get_traces: loop variable i
    gt_traces,      \* get_traces: local list `traces`
    n,              \* compute_coefs: argument n
    vec_of_traces,  \* compute_coefs / c_n_m: argument vec_of_traces
    c_list,         \* compute_coefs: local list c_list
    m,              \* compute_coefs: loop variable m
    stack,          \* activation records of c_n_m, innermost last
    result,         \* value returned by a top-level c_n_m call made by the caller
    mults,          \* number of terms c_n_m(..)*vec_of_traces[k-1] added during the current call
    evals,          \* evals[j]: number of times the loop of c_n_m was entered with m = j
    reads,          \* 0-based indices of vec_of_traces read during the current call
    args,           \* the caller's argument record of the call in progress
    input,          \* the first call the outside caller makes
    log             \* completed outside calls: [args, kind, value]

vars == <<cell, pc, rho, traces, coefs, poly, gt_i, gt_traces, n, vec_of_traces,
          c_list, m, stack, result, mults, evals, reads, args, input, log>>

(***************************************************************************)
(* Bounds of the model.                                                    *)
(***************************************************************************)
MaxDim == 2         \* all d x d matrices over Entries for d in 1..MaxDim
MaxN == 3           \* n and m of outside calls range up to MaxN
MaxLen == 3         \* trace vectors of outside calls have at most MaxLen entries
MaxShort == 1       \* an outside call's trace vector is at most MaxShort entries too short
StackLimit == 8     \* activation records before the runtime gives up

Entries == {-1, 0, 1}       \* matrix entries
TraceVals == {-1, 0, 1}     \* entries of the trace vectors of outside calls
Garbage == {0, 1}           \* what a read past the end of the array may find

None == <<>>

(***************************************************************************)
(* Rational arithmetic.                                                    *)
(***************************************************************************)
Abs(x) == IF x < 0 THEN -x ELSE x

RECURSIVE GCD(_, _)
GCD(a, b) == IF b = 0 THEN a ELSE GCD(b, a % b)

Rat(p, q) ==
    LET s == IF q < 0 THEN -1 ELSE 1
        g == GCD(Abs(p), Abs(q))
    IN  <<(s * p) \div g, (s * q) \div g>>

Zero == <<0, 1>>
One == <<1, 1>>
FromInt(x) == <<x, 1>>
RAdd(a, b) == Rat(a[1] * b[2] + b[1] * a[2], a[2] * b[2])
RMul(a, b) == Rat(a[1] * b[1], a[2] * b[2])

(***************************************************************************)
(* Python sequences: 0-based indexing, negative indices count from the     *)
(* end, a[::-1] reverses.                                                  *)
(***************************************************************************)
InBounds(v, idx) == idx >= -Len(v) /\ idx < Len(v)
ReadAt(v, idx) == IF idx >= 0 THEN v[idx + 1] ELSE v[Len(v) + idx + 1]

ReversedSame(s) == s
Reversed(s) == [i \in 1..Len(s) |-> s[Len(s) + 1 - i]]

(***************************************************************************)
(* Matrices: rho[i][j], 1-based here.  np.trace, @ and                     *)
(* np.linalg.matrix_power.                                                 *)
(***************************************************************************)
RECURSIVE SumTo(_, _)
SumTo(f, k) == IF k = 0 THEN 0 ELSE f[k] + SumTo(f, k - 1)

Dim(A) == Len(A)

Identity(d) == [i \in 1..d |-> [j \in 1..d |-> IF i = j THEN 1 ELSE 0]]

\* The elementwise product A * B instead of the matrix product A @ B.
MatMulElementwise(A, B) ==
    [i \in 1..Dim(A) |-> [j \in 1..Dim(A) |-> A[i][j] * B[i][j]]]

MatMul(A, B) ==
    [i \in 1..Dim(A) |-> [j \in 1..Dim(A) |->
        SumTo([k \in 1..Dim(A) |-> A[i][k] * B[k][j]], Dim(A))]]

Trace(A) == SumTo([i \in 1..Dim(A) |-> A[i][i]], Dim(A))

\* The square-and-multiply loop of matrix_power: z runs through the repeated
\* squares of the matrix, acc collects those of the set bits of p.
RECURSIVE PowerLoop(_, _, _, _)
PowerLoop(A, z, acc, p) ==
    IF p = 0 THEN acc
    ELSE LET z2 == IF z = None THEN A ELSE MatMul(z, z)
             acc2 == IF p % 2 = 1
                     THEN (IF acc = None THEN z2 ELSE MatMul(acc, z2))
                     ELSE acc
         IN  PowerLoop(A, z2, acc2, p \div 2)

MatPow(A, p) ==
    CASE p = 0 -> Identity(Dim(A))
      [] p = 1 -> A
      [] p = 2 -> MatMul(A, A)
      [] p = 3 -> MatMul(MatMul(A, A), A)
      [] OTHER -> PowerLoop(A, None, None, p)

\* d = 2**n with n = 2
NotebookDim == 4

\* Every matrix over Entries of dimension up to MaxDim, and, in the notebook's
\* dimension, the matrices with any diagonal, ones above the diagonal and any
\* entry in the lower left corner.
Dense == UNION {[1..d -> [1..d -> Entries]] : d \in 1..MaxDim}

Cyclic(d) ==
    {[i \in 1..d |-> [j \in 1..d |->
         IF j = i THEN u[i]
         ELSE IF j = i + 1 THEN 1
         ELSE IF i = d /\ j = 1 THEN c
         ELSE 0]] : u \in [1..d -> Entries], c \in Entries}

Matrices == Dense \cup Cyclic(NotebookDim)

(***************************************************************************)
(* c_n_m(n, m, vec_of_traces).  An activation record holds the arguments   *)
(* n and m, the loop variable k and the accumulator suma.                  *)
(***************************************************************************)
FirstKZero == 1 - 1
FirstK == 1

TraceIndexOffByOne(k) == k
TraceIndex(k) == k - 1

ReturnValuePlus(suma, mm) == RMul(suma, Rat(1, mm))
ReturnValue(suma, mm) == RMul(suma, Rat(-1, mm))

Frame(nn, mm) == [n |-> nn, m |-> mm, k |-> FirstK, suma |-> Zero]

Top == stack[Len(stack)]

Bump(f, j) == IF j \in DOMAIN f THEN [f EXCEPT ![j] = @ + 1] ELSE f @@ (j :> 1)

Entered(mm) == IF mm = 0 THEN evals ELSE Bump(evals, mm)

notebookVars == <<rho, traces, poly, gt_i, gt_traces>>
callerVars == <<args, input>>
coefVars == <<n, vec_of_traces, c_list, m>>

\* The call in progress ends abnormally.
Crash ==
    /\ pc' = "crashed"
    /\ stack' = <<>>
    /\ log' = IF cell = "direct"
              THEN Append(log, [args |-> args, kind |-> "crash", value |-> None])
              ELSE log
    /\ UNCHANGED <<cell, coefs, result, coefVars>>

\* The outermost activation returns val to whoever called c_n_m.
ReturnToCaller(val) ==
    /\ stack' = <<>>
    /\ UNCHANGED <<mults, reads, cell, coefs, n, vec_of_traces>>
    /\ IF args.fn = "compute_coefs"
       THEN /\ c_list' = Append(c_list, val)
            /\ m' = m + 1
            /\ pc' = "loop"
            /\ UNCHANGED <<result, log>>
       ELSE /\ result' = val
            /\ pc' = "idle"
            /\ log' = Append(log, [args |-> args, kind |-> "ok", value |-> val])
            /\ UNCHANGED <<c_list, m>>

\* suma = suma + <val> * vec_of_traces[k-1] in the calling activation, whose
\* loop then moves to the next k.
Accumulate(val, t) ==
    LET rest == SubSeq(stack, 1, Len(stack) - 1)
        p == rest[Len(rest)]
    IN  /\ stack' = [rest EXCEPT ![Len(rest)] =
                        [p EXCEPT !.suma = RAdd(p.suma, RMul(val, FromInt(t))),
                                  !.k = p.k + 1]]
        /\ mults' = mults + 1
        /\ UNCHANGED <<pc, cell, coefs, result, log, coefVars>>

\* The innermost activation returns val.
Return(val) ==
    IF Len(stack) = 1
    THEN ReturnToCaller(val)
    ELSE LET idx == TraceIndex(stack[Len(stack) - 1].k)
         IN  /\ reads' = reads \cup {idx}
             /\ IF InBounds(vec_of_traces, idx)
                THEN Accumulate(val, ReadAt(vec_of_traces, idx))
                ELSE \/ \E g \in Garbage : Accumulate(val, g)
                     \/ Crash /\ UNCHANGED mults

\* if (m==0): return 1.
c_n_m_base ==
    /\ pc = "c_n_m"
    /\ Top.m = 0
    /\ Return(One)
    /\ UNCHANGED <<evals, notebookVars, callerVars>>

\* for k in range(1, m+1): ... c_n_m(n, m-k, vec_of_traces) ...
c_n_m_call ==
    /\ pc = "c_n_m"
    /\ Top.m # 0
    /\ Top.k <= Top.m
    /\ IF Len(stack) >= StackLimit
       THEN Crash /\ UNCHANGED <<evals, mults, reads>>
       ELSE /\ stack' = Append(stack, Frame(Top.n, Top.m - Top.k))
            /\ evals' = Entered(Top.m - Top.k)
            /\ UNCHANGED <<pc, cell, coefs, result, log, coefVars, mults, reads>>
    /\ UNCHANGED <<notebookVars, callerVars>>

\* return suma*(-1/m)
c_n_m_return ==
    /\ pc = "c_n_m"
    /\ Top.m # 0
    /\ Top.k > Top.m
    /\ Return(ReturnValue(Top.suma, Top.m))
    /\ UNCHANGED <<evals, notebookVars, callerVars>>

(***************************************************************************)
(* compute_coefs(n, vec_of_traces).                                        *)
(***************************************************************************)
\* The list starts empty instead of holding the leading 1.
compute_coefs_enter_empty(nn, v) ==
    /\ n' = nn
    /\ vec_of_traces' = v
    /\ c_list' = <<>>
    /\ m' = 1
    /\ pc' = "loop"
    /\ stack' = <<>>
    /\ mults' = 0
    /\ evals' = <<>>
    /\ reads' = {}

\* c_list = [1.] and the loop over range(1, n+1) starts.
compute_coefs_enter(nn, v) ==
    /\ n' = nn
    /\ vec_of_traces' = v
    /\ c_list' = <<One>>
    /\ m' = 1
    /\ pc' = "loop"
    /\ stack' = <<>>
    /\ mults' = 0
    /\ evals' = <<>>
    /\ reads' = {}

\* c_list.append(c_n_m(n, m, vec_of_traces)): the call.
compute_coefs_loop ==
    /\ pc = "loop"
    /\ m <= n
    /\ stack' = <<Frame(n, m)>>
    /\ evals' = Entered(m)
    /\ pc' = "c_n_m"
    /\ UNCHANGED <<cell, coefs, result, log, coefVars, mults, reads,
                   notebookVars, callerVars>>

\* return np.array(c_list)
compute_coefs_return ==
    /\ pc = "loop"
    /\ m > n
    /\ coefs' = c_list
    /\ pc' = "idle"
    /\ IF cell = "direct"
       THEN /\ log' = Append(log, [args |-> args, kind |-> "ok", value |-> c_list])
            /\ cell' = cell
       ELSE /\ log' = log
            /\ cell' = "59"
    /\ UNCHANGED <<result, coefVars, stack, mults, evals, reads,
                   notebookVars, callerVars>>

(***************************************************************************)
(* A caller outside the notebook: it calls compute_coefs or c_n_m with     *)
(* its input, then makes another call, then repeats the first call.        *)
(***************************************************************************)
Vectors(len) == UNION {[1..l -> TraceVals] : l \in 0..len}

Needed(a) == IF a.fn = "compute_coefs" THEN a.n ELSE a.m

Inputs ==
    {a \in [fn : {"compute_coefs"}, n : -1..MaxN, m : {0}, v : Vectors(MaxLen)]
           \cup [fn : {"c_n_m"}, n : {0, MaxN}, m : 0..MaxN, v : Vectors(MaxLen)] :
        Len(a.v) + MaxShort >= Needed(a)}

\* The second call: the same vector with another n, or the same n (and m) with
\* a vector that keeps the entries the call needs and changes or drops the rest.
Others(a) ==
    {[a EXCEPT !.n = a.n - 1],
     [a EXCEPT !.v = [i \in DOMAIN a.v |-> IF i <= Needed(a) THEN a.v[i] ELSE 1 - a.v[i]]],
     [a EXCEPT !.v = SubSeq(a.v, 1, IF Needed(a) < Len(a.v) THEN Needed(a) ELSE Len(a.v))]}

NextCalls ==
    CASE Len(log) = 0 -> {input}
      [] Len(log) = 1 -> Others(input)
      [] Len(log) = 2 -> {input}
      [] OTHER -> {}

caller_call ==
    /\ cell = "direct"
    /\ pc = "idle"
    /\ \E a \in NextCalls :
          /\ args' = a
          /\ IF a.fn = "compute_coefs"
             THEN compute_coefs_enter(a.n, a.v)
             ELSE /\ stack' = <<Frame(a.n, a.m)>>
                  /\ evals' = Entered(a.m)
                  /\ pc' = "c_n_m"
                  /\ vec_of_traces' = a.v
                  /\ mults' = 0
                  /\ reads' = {}
                  /\ UNCHANGED <<n, c_list, m>>
    /\ UNCHANGED <<cell, coefs, result, log, input, notebookVars>>

InitDirect ==
    /\ cell = "direct"
    /\ pc = "idle"
    /\ input \in Inputs
    /\ args = input
    /\ log = <<>>
    /\ rho = None /\ traces = None /\ coefs = None /\ poly = None
    /\ gt_i = 0 /\ gt_traces = None
    /\ n = 0 /\ vec_of_traces = None /\ c_list = None /\ m = 0
    /\ stack = <<>> /\ result = None
    /\ mults = 0 /\ evals = <<>> /\ reads = {}

(***************************************************************************)
(* get_traces(rho).                                                        *)
(***************************************************************************)
get_traces_enter ==
    /\ gt_traces' = <<>>
    /\ gt_i' = 0
    /\ pc' = "get_traces"

\* Raises rho to the power i instead of i+1.
get_traces_loop_power_i ==
    /\ pc = "get_traces"
    /\ gt_i < Dim(rho)
    /\ gt_traces' = Append(gt_traces, Trace(MatPow(rho, gt_i)))
    /\ gt_i' = gt_i + 1
    /\ UNCHANGED <<cell, pc, rho, traces, coefs, poly, coefVars, stack, result,
                   mults, evals, reads, callerVars, log>>

\* for i in range(rho.shape[0]): traces.append(np.trace(matrix_power(rho, i+1)))
get_traces_loop ==
    /\ pc = "get_traces"
    /\ gt_i < Dim(rho)
    /\ gt_traces' = Append(gt_traces, Trace(MatPow(rho, gt_i + 1)))
    /\ gt_i' = gt_i + 1
    /\ UNCHANGED <<cell, pc, rho, traces, coefs, poly, coefVars, stack, result,
                   mults, evals, reads, callerVars, log>>

\* return np.array(traces), to cell 56 (traces = ...) or to cell 58, where the
\* value is the second argument of compute_coefs(d, ...).
get_traces_return ==
    /\ pc = "get_traces"
    /\ gt_i >= Dim(rho)
    /\ IF cell = "56"
       THEN /\ traces' = gt_traces
            /\ cell' = "58"
            /\ pc' = "idle"
            /\ UNCHANGED <<coefVars, stack, mults, evals, reads, args>>
       ELSE /\ args' = [fn |-> "compute_coefs", n |-> Dim(rho), m |-> 0, v |-> gt_traces]
            /\ compute_coefs_enter(Dim(rho), gt_traces)
            /\ UNCHANGED <<traces, cell>>
    /\ UNCHANGED <<rho, coefs, poly, gt_i, gt_traces, result, input, log>>

(***************************************************************************)
(* The notebook's cells.                                                   *)
(***************************************************************************)
\* traces = get_traces(rho)   and   coefs = compute_coefs(d, get_traces(rho))
cell_get_traces ==
    /\ cell \in {"56", "58"}
    /\ pc = "idle"
    /\ get_traces_enter
    /\ UNCHANGED <<cell, rho, traces, coefs, poly, coefVars, stack, result,
                   mults, evals, reads, callerVars, log>>

\* poly = np.polynomial.polynomial.Polynomial(coefs[::-1])
cell_polynomial ==
    /\ cell = "59"
    /\ pc = "idle"
    /\ poly' = Reversed(coefs)
    /\ cell' = "end"
    /\ UNCHANGED <<pc, rho, traces, coefs, gt_i, gt_traces, coefVars, stack, result,
                   mults, evals, reads, callerVars, log>>

NoInput == [fn |-> "none", n |-> 0, m |-> 0, v |-> None]

InitNotebook ==
    /\ cell = "56"
    /\ pc = "idle"
    /\ rho \in Matrices
    /\ input = NoInput
    /\ args = NoInput
    /\ log = <<>>
    /\ traces = None /\ coefs = None /\ poly = None
    /\ gt_i = 0 /\ gt_traces = None
    /\ n = 0 /\ vec_of_traces = None /\ c_list = None /\ m = 0
    /\ stack = <<>> /\ result = None
    /\ mults = 0 /\ evals = <<>> /\ reads = {}

Init == InitDirect \/ InitNotebook

Next ==
    \/ caller_call
    \/ cell_get_traces
    \/ get_traces_loop
    \/ get_traces_return
    \/ compute_coefs_loop
    \/ compute_coefs_return
    \/ c_n_m_base
    \/ c_n_m_call
    \/ c_n_m_return
    \/ cell_polynomial

Spec == Init /\ [][Next]_vars

(***************************************************************************)
(* Properties.                                                             *)
(***************************************************************************)
RECURSIVE RSum(_, _)
RSum(f, k) == IF k = 0 THEN Zero ELSE RAdd(RSum(f, k - 1), f[k])

\* auxiliary(0) = 1;  auxiliary(m) = -(1/m) * sum_{k=1..m} auxiliary(m-k) * traces[k-1]
RECURSIVE Auxiliary(_, _)
Auxiliary(mm, tr) ==
    IF mm = 0 THEN One
    ELSE RMul(Rat(-1, mm),
              RSum([k \in 1..mm |-> RMul(Auxiliary(mm - k, tr), FromInt(tr[k]))], mm))

Last == log[Len(log)]
Returned == cell = "direct" /\ pc \in {"idle", "crashed"} /\ log # <<>>
ValidArgs(a) == Needed(a) >= 1 /\ Len(a.v) >= Needed(a)
CoefsCall(a) == a.fn = "compute_coefs"
NotebookCoefs == cell = "59" /\ pc = "idle"

FollowsRecursion(d, tr, out) ==
    /\ Len(out) >= d + 1
    /\ \A k \in 0..d : out[k + 1] = Auxiliary(k, tr)

\* C1: for d >= 1 and a trace vector of length >= d, compute_coefs(d, traces)
\* returns a vector whose entry k, for every k in 0..d, is auxiliary(k).
C1_CoefficientsFollowRecursion ==
    /\ (Returned /\ CoefsCall(Last.args) /\ ValidArgs(Last.args))
          => /\ Last.kind = "ok"
             /\ FollowsRecursion(Last.args.n, Last.args.v, Last.value)
    /\ NotebookCoefs => FollowsRecursion(Dim(rho), vec_of_traces, coefs)

C1_Witness ==
    /\ Returned /\ CoefsCall(Last.args) /\ ValidArgs(Last.args)
    /\ Last.args.n = MaxN
    /\ Last.kind = "ok"
    /\ \A k \in 1..MaxN : Last.value[k + 1] # Zero

\* C3: for d >= 1 and any trace vector, what compute_coefs returns has exactly
\* d+1 entries and its entry 0 is exactly 1.
C3_LengthAndLeadingOne ==
    /\ (Returned /\ CoefsCall(Last.args) /\ Last.args.n >= 1 /\ Last.kind = "ok")
          => /\ Len(Last.value) = Last.args.n + 1
             /\ Last.value[1] = One
    /\ NotebookCoefs => (Len(coefs) = Dim(rho) + 1 /\ coefs[1] = One)

C3_Witness ==
    /\ Returned /\ CoefsCall(Last.args) /\ Last.kind = "ok"
    /\ Last.args.n = MaxN
    /\ Last.args.v = [i \in 1..MaxLen |-> -1]
    /\ Len(Last.value) = MaxN + 1

\* C5: during one call of compute_coefs the body of c_n_m is evaluated at most
\* once for each m, and at most d(d+1)/2 terms c_n_m(m-k)*traces[k-1] are added.
C5_Memoized ==
    (CoefsCall(args) /\ ValidArgs(args))
       => /\ \A j \in DOMAIN evals : evals[j] <= 1
          /\ 2 * mults <= args.n * (args.n + 1)

\* C6: compute_coefs called with d < 1 or with fewer than d traces returns no
\* coefficient vector and reads no entry outside the trace vector.
C6_InvalidDimensionRaised ==
    (cell = "direct" /\ CoefsCall(args) /\ (args.n < 1 \/ Len(args.v) < args.n))
       => /\ \A i \in reads : i >= 0 /\ i < Len(args.v)
          /\ \A i \in 1..Len(log) : log[i].args = args => log[i].kind # "ok"

SameFirst(a, b) ==
    /\ a.fn = b.fn /\ a.n = b.n /\ a.m = b.m
    /\ Len(a.v) >= Needed(a) /\ Len(b.v) >= Needed(b)
    /\ SubSeq(a.v, 1, Needed(a)) = SubSeq(b.v, 1, Needed(b))

\* C8: compute_coefs(d, traces) with at least d traces reads no index >= d, and
\* two trace vectors that agree on indices 0..d-1 give the same coefficients.
C8_OnlyFirstEntriesUsed ==
    /\ (cell = "direct" /\ CoefsCall(args) /\ Len(args.v) >= args.n)
          => \A i \in reads : i >= 0 /\ i < args.n
    /\ Returned =>
          \A i, j \in 1..Len(log) :
             (CoefsCall(log[i].args) /\ SameFirst(log[i].args, log[j].args))
                => (log[i].kind = "ok" /\ log[j].kind = "ok" /\ log[i].value = log[j].value)

C8_Witness ==
    /\ Len(log) >= 2
    /\ CoefsCall(log[1].args) /\ SameFirst(log[1].args, log[2].args)
    /\ log[1].args.n = 2
    /\ Len(log[1].args.v) = MaxLen
    /\ log[1].args.v # log[2].args.v
    /\ reads = {0, 1}
    /\ log[1].value = log[2].value

\* C9: a call leaves its input unchanged, and two calls with identical input
\* return identical output whatever calls are made in between.
C9_Pure ==
    /\ (cell = "direct" /\ pc # "idle") => vec_of_traces = args.v
    /\ Returned =>
          \A i, j \in 1..Len(log) :
             (CoefsCall(log[i].args) /\ log[i].args = log[j].args)
                => (log[i].kind = log[j].kind /\ log[i].value = log[j].value)

\* Steps an activation of c_n_m with m = mm takes until it returns.
RECURSIVE Cost(_)
Cost(mm) == IF mm <= 0 THEN 1 ELSE 1 + SumTo([k \in 1..mm |-> 1 + Cost(mm - k)], mm)

\* Steps left to an activation whose loop stands at k.
Rest(mm, k) ==
    IF mm = 0 THEN 1
    ELSE 1 + SumTo([j \in 1..mm |-> IF j >= k THEN 1 + Cost(mm - j) ELSE 0], mm)

\* Steps left to the activations of c_n_m on the stack.
StackWork ==
    SumTo([i \in 1..Len(stack) |->
              IF i = Len(stack) THEN Rest(stack[i].m, stack[i].k)
              ELSE Rest(stack[i].m, stack[i].k + 1)], Len(stack))

\* Steps left to the loop of compute_coefs, from m = from on, and its return.
LoopWork(from) ==
    IF from > n THEN 1
    ELSE 1 + SumTo([j \in 1..n |-> IF j >= from THEN 1 + Cost(j) ELSE 0], n)

Running == pc \in {"loop", "c_n_m"}

\* The guard of one of the steps of compute_coefs or c_n_m holds.
CanStep ==
    \/ pc = "loop" /\ (m <= n \/ m > n)
    \/ pc = "c_n_m" /\ stack # <<>> /\ (Top.m = 0 \/ Top.k <= Top.m \/ Top.k > Top.m)

Work ==
    CASE pc = "loop" -> LoopWork(m)
      [] pc = "c_n_m" -> StackWork + (IF CoefsCall(args) THEN LoopWork(m + 1) ELSE 0)
      [] OTHER -> 0

WellFounded ==
    /\ Len(stack) < StackLimit
    /\ \A i \in 1..Len(stack) :
          /\ stack[i].m >= 0
          /\ stack[i].k >= 1 /\ stack[i].k <= stack[i].m + 1
          /\ i > 1 => /\ stack[i].m = stack[i - 1].m - stack[i - 1].k
                      /\ stack[i].m >= 0 /\ stack[i].m < stack[i - 1].m
          /\ i - 1 <= stack[1].m - stack[i].m
    /\ stack # <<>> => Len(stack) - 1 <= stack[1].m

SameButN(a, b) == a.fn = "c_n_m" /\ b.fn = "c_n_m" /\ a.m = b.m /\ a.v = b.v

\* C10: every recursive call of c_n_m(n, m, ..) has second argument in 0..m-1,
\* the recursion is never deeper than m, the value returned does not depend on
\* n, and c_n_m and compute_coefs terminate: a call in progress can always take
\* a step, and every step leaves strictly less work to do.
C10_Terminates ==
    /\ [](WellFounded)
    /\ [](Running => CanStep)
    /\ [][Running => (Work' < Work /\ Work' >= 0)]_vars
    /\ [](Returned =>
            \A i, j \in 1..Len(log) :
               (SameButN(log[i].args, log[j].args) /\ Len(log[i].args.v) >= log[i].args.m)
                  => (log[i].kind = "ok" /\ log[i].value = log[j].value))

C10_Witness ==
    /\ pc = "c_n_m"
    /\ CoefsCall(args)
    /\ Len(stack) = MaxN + 1
    /\ stack[1].m = MaxN
    /\ Top.m = 0

(***************************************************************************)
(* Reference computations for the matrix properties: powers by repeated    *)
(* multiplication, det(xI - A) by cofactor expansion, algebraic            *)
(* multiplicity of an eigenvalue by the rank of (A - rI)^d, multiplicity   *)
(* of a root by repeated division.                                         *)
(***************************************************************************)
RefMul(A, B) ==
    [i \in 1..Len(A) |-> [j \in 1..Len(A) |->
        SumTo([k \in 1..Len(A) |-> B[k][j] * A[i][k]], Len(A))]]

RECURSIVE RefPow(_, _)
RefPow(A, p) == IF p = 1 THEN A ELSE RefMul(A, RefPow(A, p - 1))

RefTrace(A) == SumTo([i \in 1..Len(A) |-> A[i][i]], Len(A))

\* Polynomials with integer coefficients, lowest degree first.
Coef(p, i) == IF i \in 1..Len(p) THEN p[i] ELSE 0
PAdd(p, q) == [i \in 1..(IF Len(p) > Len(q) THEN Len(p) ELSE Len(q)) |-> Coef(p, i) + Coef(q, i)]
PScale(c, p) == [i \in 1..Len(p) |-> c * p[i]]
PMul(p, q) ==
    [i \in 1..(Len(p) + Len(q) - 1) |->
        SumTo([j \in 1..Len(p) |-> p[j] * Coef(q, i + 1 - j)], Len(p))]

Minor(M, r, c) ==
    [i \in 1..(Len(M) - 1) |-> [j \in 1..(Len(M) - 1) |->
        M[IF i < r THEN i ELSE i + 1][IF j < c THEN j ELSE j + 1]]]

RECURSIVE PolyDet(_), Cofactors(_, _)
PolyDet(M) == IF Len(M) = 1 THEN M[1][1] ELSE Cofactors(M, Len(M))
Cofactors(M, j) ==
    IF j = 0 THEN <<0>>
    ELSE PAdd(Cofactors(M, j - 1),
              PScale(IF j % 2 = 1 THEN 1 ELSE -1, PMul(M[1][j], PolyDet(Minor(M, 1, j)))))

\* det(xI - A), lowest degree first, d+1 coefficients.
CharPoly(A) ==
    LET p == PolyDet([i \in 1..Len(A) |-> [j \in 1..Len(A) |->
                        IF i = j THEN <<-A[i][i], 1>> ELSE <<-A[i][j]>>]])
    IN  [i \in 1..(Len(A) + 1) |-> Coef(p, i)]

\* Determinant of an integer matrix, by cofactor expansion along the first row.
RECURSIVE Det(_)
Det(M) ==
    IF Len(M) = 1 THEN M[1][1]
    ELSE SumTo([j \in 1..Len(M) |->
                  (IF j % 2 = 1 THEN 1 ELSE -1) * M[1][j] * Det(Minor(M, 1, j))], Len(M))

\* Rank of a square matrix: its size when it is regular, and else the largest
\* rank among the matrices left when one row and one column are deleted.
RECURSIVE Rank(_)
Rank(M) ==
    IF Det(M) # 0 THEN Len(M)
    ELSE IF Len(M) = 1 THEN 0
    ELSE LET rs == {Rank(Minor(M, i, j)) : i \in 1..Len(M), j \in 1..Len(M)}
         IN  CHOOSE k \in rs : \A j \in rs : j <= k

\* Algebraic multiplicity of r as an eigenvalue of A: dim ker (A - rI)^d.
AlgMult(A, r) ==
    LET B == [i \in 1..Len(A) |-> [j \in 1..Len(A) |-> A[i][j] - (IF i = j THEN r ELSE 0)]]
    IN  IF Det(B) # 0 THEN 0 ELSE Len(A) - Rank(RefPow(B, Len(A)))

\* Multiplicity of r as a root of sum_k c[k] x^(d-k), c highest degree first.
RECURSIVE RootMult(_, _)
RootMult(c, r) ==
    IF Len(c) <= 1 THEN 0
    ELSE LET b[i \in 1..Len(c)] ==
                 IF i = 1 THEN c[1] ELSE RAdd(c[i], RMul(FromInt(r), b[i - 1]))
         IN  IF b[Len(c)] = Zero THEN 1 + RootMult(SubSeq(b, 1, Len(c) - 1), r) ELSE 0

\* Every integer eigenvalue of a matrix over Entries lies in this range.
Candidates == -(MaxDim + NotebookDim)..(MaxDim + NotebookDim)

FirstTraces == cell = "58" /\ pc = "idle"
SecondTraces == cell = "58" /\ pc = "loop" /\ m = 1

TracePowers(t) ==
    /\ Len(t) = Dim(rho)
    /\ \A i \in 1..Dim(rho) : t[i] = RefTrace(RefPow(rho, i))
    /\ Dim(rho) = 1 => t = <<rho[1][1]>>

\* C4: get_traces returns exactly d values, entry i (i = 1..d) being the trace of
\* the i-th power of A computed by repeated multiplication; for d = 1 the single
\* entry is A[0][0].
C4_TracePowers ==
    /\ FirstTraces => TracePowers(traces)
    /\ SecondTraces => TracePowers(vec_of_traces)

C4_Witness ==
    /\ SecondTraces
    /\ Dim(rho) = NotebookDim
    /\ rho[NotebookDim][1] # 0
    /\ traces = vec_of_traces
    /\ \A i \in 1..NotebookDim :
          traces[i] # 0 /\ traces[i] # traces[1 + (i % NotebookDim)]

\* C7: the coefficient vector is highest degree first with entry 0 = 1 the
\* coefficient of x^d, and the sequence handed to the solver is its reversal:
\* the solver's coefficient of x^j is coefficient[d-j], that of x^d is 1.
C7_ReversedForSolver ==
    cell = "end" =>
       /\ Len(poly) = Dim(rho) + 1
       /\ \A j \in 0..Dim(rho) :
             /\ poly[j + 1] = coefs[Dim(rho) - j + 1]
             /\ poly[j + 1] = FromInt(CharPoly(rho)[j + 1])
       /\ coefs[1] = One
       /\ poly[Dim(rho) + 1] = One /\ poly[Dim(rho) + 1] # Zero

C7_Witness ==
    /\ cell = "end"
    /\ Dim(rho) = MaxDim
    /\ poly # coefs
    /\ poly[1] # Zero
    /\ poly[MaxDim + 1] = One

====
